---- MODULE Spec2Model ----
(***************************************************************************)
(* Order checkout (POST /api/checkout) and stock adjustment                *)
(* (PUT /api/menu/[id]/stock) of the restaurant application, as request    *)
(* handlers running concurrently against one PostgreSQL store.             *)
(*                                                                         *)
(* Other requests interleave wherever a handler awaits the store.  A       *)
(* handler is cut at its reads of committed rows and at the end of its     *)
(* transaction; what it does between two of these without touching the    *)
(* store belongs to the action of the next one.  Reads outside a           *)
(* transaction see the committed rows.  The writes of a prisma.$transaction*)
(* are invisible to others until COMMIT and are discarded when a statement *)
(* throws; the row lock taken by an UPDATE makes a relative decrement apply*)
(* to the row as committed when the lock is granted.  The committed effect *)
(* of a transaction is therefore its writes applied to the rows as they    *)
(* are at COMMIT, and a transaction is one action: it commits, or one of   *)
(* its statements throws and the catch block runs.                         *)
(***************************************************************************)
EXTENDS Integers, Sequences, FiniteSets, TLC

\* ------------------------------------------------------------------ bounds
MaxStock == 1
MaxQty == 2

Reqs == {1, 2}
MenuIds == {"m1", "m2"}
TableIds == {"t1"}
Prices == {2, 3}
Actions == {"add", "subtract", "set"}

\* ------------------------------------------------------------ small helpers
Max(a, b) == IF a >= b THEN a ELSE b
Min(a, b) == IF a <= b THEN a ELSE b

RECURSIVE SumSeq(_)
SumSeq(s) == IF s = <<>> THEN 0 ELSE Head(s) + SumSeq(Tail(s))

MapSeq(s, F(_)) == [i \in 1..Len(s) |-> F(s[i])]

\* ------------------------------------------------------------------ inputs
\* Ids a request may name besides those of the rows: ids that no row has.
MissingMenuId == "m9"
MissingTableId == "t9"
\* The menu items whose stock the admin adjusts.
AdjustedMenuIds == {"m1", MissingMenuId}
RequestTableIds == TableIds \cup {MissingTableId}

\* A cart line: { id, quantity } (src/unnamed/part_002 handleCheckout body).
\* The quantity is a JSON number: `quantity` with `frac` false is the integer,
\* with `frac` true it is the integer plus one half.
Line(id, q) == [id |-> id, quantity |-> q, frac |-> FALSE]
HalfLine(id, q) == [id |-> id, quantity |-> q, frac |-> TRUE]

\* Carts submitted to the checkout: one line on m1, one line on each of the
\* two menu items, and the same menu item on two lines.
Carts ==
    {<<Line("m1", q)>> : q \in 1..MaxQty}
    \cup {<<Line("m1", q), Line("m2", q)>> : q \in 1..MaxQty}
    \cup {<<Line("m1", 1), Line("m1", 1)>>}

\* The JSON value sent as `quantity` of a stock update.
RawInt(n) == [t |-> "int", v |-> n]
RawMissing == [t |-> "missing", v |-> 0]
RawNull == [t |-> "null", v |-> 0]
\* RawHalf(n) is the number n plus one half.
RawHalf(n) == [t |-> "half", v |-> n]
RawQuantities ==
    {RawInt(n) : n \in -1..MaxQty} \cup {RawMissing, RawNull, RawHalf(1)}
RawActions == Actions \cup {"bogus"}

\* ------------------------------------------------------------------- state
VARIABLES
    menu,     \* menus table: id -> [price, stock, is_available]
    tables,   \* tables table: id -> name
    orders,   \* orders table with the order_items of each order
    logs,     \* logs table
    req,      \* the requests in flight: position and locals of each handler
    panel     \* the cart panel of one browser: its React state

vars == <<menu, tables, orders, logs, req, panel>>

\* A string, as far as trim() and length see it: `pad` characters of leading
\* and trailing whitespace around `body` other characters.
Str(pad, body) == [pad |-> pad, body |-> body]
Length(s) == s.pad + s.body
Trim(s) == Str(0, s.body)

\* The `name` of a table request's JSON body: not there (undefined or null),
\* not a string, a string, or no property at all because the body is null.
NoName == [t |-> "missing", s |-> Str(0, 0)]

\* part_002:413-420  the cart panel before anything is put in the cart:
\* useCart() items and isCartOpen, and the useState initial values.
\* `response` is history: how the last checkout fetch ended.
ClosedPanel ==
    [items |-> <<>>, isCartOpen |-> FALSE, isCheckoutDialogOpen |-> FALSE,
     isLoading |-> FALSE, tableId |-> "", pc |-> "idle", toast |-> "",
     response |-> "none"]

\* The name of a table that exists before any request.
SeededName == Str(0, 2)

\* prisma.table.findUnique({ where: { id } }) finds a row
TableExists(id) == id \in DOMAIN tables

NoRow == [found |-> FALSE, price |-> 0, stock |-> 0]
\* Of a row read for validation, what the handler still uses afterwards.
Kept(row) == [row EXCEPT !.stock = 0]
NoMenuItems == [m \in MenuIds |-> NoRow]
NoTx == [orders |-> {}, writes |-> <<>>, logs |-> {}]
NoChange == [previous_stock |-> 0, new_stock |-> 0, change |-> 0, action |-> ""]
NoResponse == [status |-> 0, error |-> "", detail |-> <<>>, order |-> 0,
               stock_change |-> NoChange]

Idle ==
    [kind |-> "none", pc |-> "idle", session |-> FALSE,
     tableId |-> "", items |-> <<>>,
     menuItems |-> NoMenuItems, orderItemsData |-> <<>>, totalAmount |-> 0,
     id |-> "", action |-> "", quantity |-> 0, name |-> NoName,
     menuItem |-> NoRow, newStock |-> 0, stockChange |-> 0,
     err |-> "", response |-> NoResponse,
     \* history: the requests answered before this one began, and whether a
     \* price this checkout had read was edited before it committed
     before |-> {}, repriced |-> FALSE]

Response(status, error, detail) ==
    [NoResponse EXCEPT !.status = status, !.error = error, !.detail = detail]

\* ------------------------------------------------------- rows of the store
LogRow(r, k, action, ref, qty, prev, new) ==
    [id |-> <<r, k>>, action |-> action, ref |-> ref, qty |-> qty,
     prev |-> prev, new |-> new]

\* OrderRow creating only the first order item.
OrderRow_headOnly(r, tableId, totalAmount, orderItemsData) ==
    [id |-> r, table_id |-> tableId, order_status |-> "pending",
     payment_status |-> "pending", total_amount |-> totalAmount,
     order_items |-> <<Head(orderItemsData)>>]

\* part_000:288-315  tx.order.create with its nested order_items
OrderRow(r, tableId, totalAmount, orderItemsData) ==
    [id |-> r, table_id |-> tableId, order_status |-> "pending",
     payment_status |-> "pending", total_amount |-> totalAmount,
     order_items |-> orderItemsData]

\* One buffered UPDATE of menus.stock: a relative decrement or an absolute set.
Decrement(id, n) == [id |-> id, op |-> "decrement", n |-> n]
SetStock(id, n) == [id |-> id, op |-> "set", n |-> n]

\* ApplyWrite also switching off an item whose stock it brings to 0.
ApplyWrite_autoDisable(m, w) ==
    LET stock == IF w.op = "decrement" THEN m[w.id].stock - w.n ELSE w.n IN
    [m EXCEPT ![w.id].stock = stock,
              ![w.id].is_available = @ /\ stock # 0]

\* ApplyWrite storing the operand of a decrement as the new stock.
ApplyWrite_assign(m, w) ==
    [m EXCEPT ![w.id].stock = w.n]

\* part_000:318-327  menu.update({ stock: { decrement } });
\* stock/route.ts:84-91  menu.update({ stock: newStock })
ApplyWrite(m, w) ==
    [m EXCEPT ![w.id].stock = IF w.op = "decrement" THEN @ - w.n ELSE w.n]

RECURSIVE ApplyWrites(_, _)
ApplyWrites(m, ws) ==
    IF ws = <<>> THEN m ELSE ApplyWrites(ApplyWrite(m, Head(ws)), Tail(ws))

\* AbortedTx without the rollback: the statements run before the throw stay.
AbortedTx_kept(tx) == tx

\* What a transaction that throws leaves in the store: nothing.
AbortedTx(tx) == NoTx

Init ==
    /\ menu \in [MenuIds -> [price : {2}, stock : 0..MaxStock,
                             is_available : {TRUE}]]
    /\ tables = [t \in TableIds |-> SeededName]
    /\ orders = {}
    /\ logs = {}
    /\ req = [r \in Reqs |-> Idle]
    /\ panel = ClosedPanel

\* ------------------------------------------------------- checkout: helpers
\* part_000:172-188  items.filter(isInvalid)
IsInvalid(item) ==
    \/ item.id = ""
    \/ item.quantity = 0 /\ ~item.frac
    \/ IF item.frac THEN item.quantity < 0 ELSE item.quantity <= 0
invalidItems(items) == SelectSeq(items, IsInvalid)

\* part_000:202-204  items.map(item => item.id).filter(Boolean)
IdOf(item) == item.id
NonEmptyId(id) == id # ""
menuIds(items) == SelectSeq(MapSeq(items, IdOf), NonEmptyId)

\* findMany without the is_available filter.
FindMany_anyAvailability(m, ids) ==
    [x \in MenuIds |->
        IF \E j \in 1..Len(ids) : ids[j] = x
        THEN [found |-> TRUE, price |-> m[x].price, stock |-> m[x].stock]
        ELSE NoRow]

\* part_000:214-219  prisma.menu.findMany({ id in menuIds, is_available })
FindMany(m, ids) ==
    [x \in MenuIds |->
        IF (\E j \in 1..Len(ids) : ids[j] = x) /\ m[x].is_available
        THEN [found |-> TRUE, price |-> m[x].price, stock |-> m[x].stock]
        ELSE NoRow]

FoundIds(menuItems) == {x \in MenuIds : menuItems[x].found}

\* menuItems.find(menu => menu.id === id)
Find(menuItems, id) == IF id \in MenuIds THEN menuItems[id] ELSE NoRow

\* part_000:222-223  menuIds.filter(id => !foundIds.includes(id))
missingIds(menuItems, ids) ==
    LET NotFound(id) == id \notin FoundIds(menuItems) IN SelectSeq(ids, NotFound)

\* part_000:235-246  one stock error per line that asks for more than is there
stockErrors(menuItems, items) ==
    LET Short(item) == /\ Find(menuItems, item.id).found
                       /\ IF item.frac
                          THEN Find(menuItems, item.id).stock <= item.quantity
                          ELSE Find(menuItems, item.id).stock < item.quantity
        Err(item) == [menu_id |-> item.id, requested |-> item.quantity,
                      half |-> item.frac,
                      available |-> Find(menuItems, item.id).stock]
    IN  MapSeq(SelectSeq(items, Short), Err)

\* orderItemsData with the quantity left out of the subtotal.
orderItemsData_unitSubtotal(menuItems, items) ==
    LET Row(item) == [menu_id |-> item.id,
                      price |-> Find(menuItems, item.id).price,
                      quantity |-> item.quantity,
                      subtotal |-> Find(menuItems, item.id).price]
    IN  MapSeq(items, Row)

\* part_000:260-282  the order_items rows, priced from the rows read above
\* (the subtotal of a line of n and a half is written without its own half:
\* the row's quantity is not an integer and order.create never stores it)
orderItemsData(menuItems, items) ==
    LET Row(item) == [menu_id |-> item.id,
                      price |-> Find(menuItems, item.id).price,
                      quantity |-> item.quantity,
                      subtotal |-> IF item.frac
                                   THEN (Find(menuItems, item.id).price
                                            * (2 * item.quantity + 1)) \div 2
                                   ELSE Find(menuItems, item.id).price * item.quantity]
    IN  MapSeq(items, Row)

Subtotal(row) == row.subtotal
totalAmount(rows) == SumSeq(MapSeq(rows, Subtotal))

\* CheckoutTx pricing the order items from the catalog as it is when the
\* transaction runs, instead of from the rows read at validation.
CheckoutTx_reread(q, r, k) ==
    LET n == Len(q.items)
        Row(item) == [menu_id |-> item.id, price |-> menu[item.id].price,
                      quantity |-> item.quantity,
                      subtotal |-> menu[item.id].price * item.quantity]
        rows == MapSeq(q.items, Row)
    IN
    [orders |-> IF k >= 1
                THEN {OrderRow(r, q.tableId, SumSeq(MapSeq(rows, LAMBDA row : row.subtotal)), rows)}
                ELSE {},
     writes |-> [j \in 1..Min(Max(k - 1, 0), n) |->
                    Decrement(q.items[j].id, q.items[j].quantity)],
     logs |-> (IF k >= n + 2
               THEN {LogRow(r, 0, "order_created", q.tableId, n, 0, q.totalAmount)}
               ELSE {})
              \cup {LogRow(r, j, "stock_updated", q.items[j].id,
                           0 - q.items[j].quantity, 0, 0) : j \in 1..(k - n - 2)}]

\* part_000:285-360  the statements of the checkout transaction, in order:
\* order.create, one menu.update per line, the order_created log, one
\* stock_updated log per line.  CheckoutTx(q, r, k) is what the transaction
\* has written after its first k statements.
\* The transaction without its per-line stock_updated logs.
CheckoutTxLen_noStockLogs(q) == Len(q.items) + 2

CheckoutTxLen(q) == 2 * Len(q.items) + 2

CheckoutTx(q, r, k) ==
    LET n == Len(q.items) IN
    [orders |-> IF k >= 1
                THEN {OrderRow(r, q.tableId, q.totalAmount, q.orderItemsData)}
                ELSE {},
     writes |-> [j \in 1..Min(Max(k - 1, 0), n) |->
                    Decrement(q.items[j].id, q.items[j].quantity)],
     logs |-> (IF k >= n + 2
               THEN {LogRow(r, 0, "order_created", q.tableId, n, 0, q.totalAmount)}
               ELSE {})
              \cup {LogRow(r, j, "stock_updated", q.items[j].id,
                           0 - q.items[j].quantity, 0, 0) : j \in 1..(k - n - 2)}]

\* schema.prisma:111-113  order_items.quantity, subtotal and
\* orders.total_amount are Int columns: order.create throws on a row whose
\* quantity is not an integer.
IntColumns(items) == \A j \in 1..Len(items) : ~items[j].frac

\* The longest transaction: a checkout of two lines, and its COMMIT.
MaxTxLen == 2 * 2 + 3

\* ------------------------------------------------------------ store commit
\* Commit storing the transaction's log rows in place of the table.
Commit_replacing(tx) ==
    /\ orders' = orders \cup tx.orders
    /\ menu' = ApplyWrites(menu, tx.writes)
    /\ logs' = tx.logs
    /\ UNCHANGED tables

\* COMMIT: the rows the transaction wrote become the committed rows
Commit(tx) ==
    /\ orders' = orders \cup tx.orders
    /\ menu' = ApplyWrites(menu, tx.writes)
    /\ logs' = logs \cup tx.logs
    /\ UNCHANGED tables

Set(r, rec) == req' = [req EXCEPT ![r] = rec] /\ UNCHANGED panel

Respond(r, response) ==
    Set(r, [req[r] EXCEPT !.pc = "done", !.response = response])

\* Request slots are taken in order: the slots are interchangeable.
CanStart(r) ==
    /\ req[r].pc = "idle"
    /\ \A o \in Reqs : o < r => req[o].pc # "idle"

Answered == {o \in Reqs : req[o].pc = "done"}

\* ------------------------------------------------------- checkout: handler
\* CheckoutCatch without the inner try: a failed log write escapes the
\* handler and the framework answers in its place.
\* CheckoutCatch running the handler again instead of answering.
CheckoutCatch_retry(r, q, kept, logged) ==
    /\ logs' = IF logged /\ q.session
               THEN kept \cup {LogRow(r, -1, "order_error", "", 0, 0, 0)}
               ELSE kept
    /\ Set(r, [q EXCEPT !.pc = "menu"])

CheckoutCatch_unguarded(r, q, kept, logged) ==
    /\ logs' = IF logged /\ q.session
               THEN kept \cup {LogRow(r, -1, "order_error", "", 0, 0, 0)}
               ELSE kept
    /\ Set(r, [q EXCEPT !.pc = "done",
               !.response = IF logged
                            THEN Response(500, "Failed to process checkout", <<>>)
                            ELSE Response(500, "Internal Server Error", <<>>)])

\* part_000:391-416  catch: the order_error log is tried (`logged` tells
\* whether that write succeeds), then 500
CheckoutCatch(r, q, kept, logged) ==
    /\ logs' = IF logged /\ q.session
               THEN kept \cup {LogRow(r, -1, "order_error", "", 0, 0, 0)}
               ELSE kept
    /\ Set(r, [q EXCEPT !.pc = "done",
               !.response = Response(500, "Failed to process checkout", <<>>)])

\* part_000:137-211  auth(), request.json(), required fields,
\* table.findUnique, then the shape of the lines
Checkout(r, session, tableId, items) ==
    /\ CanStart(r)
    /\ LET q == [req[r] EXCEPT !.kind = "checkout", !.session = session,
                               !.tableId = tableId, !.items = items,
                               !.before = Answered]
           Reply(response) == Set(r, [q EXCEPT !.pc = "done", !.response = response])
       IN  IF ~session
           THEN Set(r, [req[r] EXCEPT !.kind = "checkout", !.pc = "done",
                        !.response = Response(401, "Authentication required", <<>>)])
           ELSE IF tableId = "" \/ Len(items) = 0
           THEN Reply(Response(400, "Table ID and items are required", <<>>))
           ELSE IF ~TableExists(tableId)
           THEN Reply(Response(400, "Invalid table selected", <<>>))
           ELSE IF Len(invalidItems(items)) > 0
           THEN Reply(Response(400, "All items must have valid ID and quantity",
                               invalidItems(items)))
           ELSE IF Len(menuIds(items)) = 0
           THEN Reply(Response(400, "No valid menu items found", <<>>))
           ELSE Set(r, [q EXCEPT !.pc = "menu"])
    /\ UNCHANGED <<menu, tables, orders, logs>>

\* part_000:214-282  menu.findMany, availability, stock, order item rows.
\* (The two throws at 264-270 need a line without a row or with a quantity
\* <= 0, which the checks above have already answered.)
CheckoutFindMenu(r) ==
    /\ req[r].kind = "checkout" /\ req[r].pc = "menu"
    /\ LET q == req[r]
           ids == menuIds(q.items)
           found == FindMany(menu, ids)
           rows == orderItemsData(found, q.items)
       IN  IF Cardinality(FoundIds(found)) # Len(ids)
           THEN Respond(r, Response(400,
                    "Some menu items are not available or do not exist",
                    missingIds(found, ids)))
           ELSE IF Len(stockErrors(found, q.items)) > 0
           THEN Respond(r, Response(400, "Insufficient stock for some items",
                                    stockErrors(found, q.items)))
           ELSE Set(r, [q EXCEPT !.pc = "tx",
                                 !.menuItems = [x \in MenuIds |-> Kept(found[x])],
                                 !.orderItemsData = rows,
                                 !.totalAmount = totalAmount(rows)])
    /\ UNCHANGED <<menu, tables, orders, logs>>

\* part_000:285-390  every statement of the transaction succeeds and it
\* commits: 201 with the order
CheckoutCommit(r) ==
    /\ req[r].kind = "checkout" /\ req[r].pc = "tx"
    /\ TableExists(req[r].tableId)
    /\ IntColumns(req[r].items)
    /\ Commit(CheckoutTx(req[r], r, CheckoutTxLen(req[r])))
    /\ Set(r, [req[r] EXCEPT !.pc = "done",
               !.response = [Response(201, "", <<>>) EXCEPT !.order = r],
               !.repriced = \E x \in FoundIds(req[r].menuItems) :
                                menu[x].price # req[r].menuItems[x].price])

\* part_000:285-360, 391-416  statement number `failAt` of the transaction
\* (or, past the last one, its COMMIT) throws: the transaction is rolled
\* back and the catch block runs
CheckoutTxFail(r, failAt, logged) ==
    /\ req[r].kind = "checkout" /\ req[r].pc = "tx"
    /\ failAt \in 1..(CheckoutTxLen(req[r]) + 1)
    /\ ~IntColumns(req[r].items) => failAt = 1
    /\ LET tx == AbortedTx(CheckoutTx(req[r], r, failAt - 1)) IN
       /\ orders' = orders \cup tx.orders
       /\ menu' = ApplyWrites(menu, tx.writes)
       /\ CheckoutCatch(r, [req[r] EXCEPT !.err = "tx"], logs \cup tx.logs, logged)
       /\ UNCHANGED tables

\* --------------------------------------------------- stock update: helpers
\* stock/route.ts:8-14  stockUpdateSchema: z.enum on action,
\* z.coerce.number().int().min(0) on quantity
\* Number(x): a number is itself, null is 0, undefined is NaN.
IsNaN(raw) == raw.t = "missing"
IsInteger(raw) == raw.t \in {"int", "null"}
Coerce(raw) == IF raw.t = "null" THEN 0 ELSE raw.v
\* The schema without .min(0).
SchemaAccepts_noMin(action, raw) ==
    /\ action \in Actions
    /\ ~IsNaN(raw)
    /\ IsInteger(raw)

\* stock/route.ts:8-14  stockUpdateSchema
SchemaAccepts(action, raw) ==
    /\ action \in Actions
    /\ ~IsNaN(raw)
    /\ IsInteger(raw)
    /\ Coerce(raw) >= 0

\* NewStock with `set` adding to the stock, as `add` does.
\* NewStock with `subtract` not floored at 0.
NewStock_noFloor(action, stock, quantity) ==
    CASE action = "add" -> stock + quantity
      [] action = "subtract" -> stock - quantity
      [] action = "set" -> quantity

NewStock_setAdds(action, stock, quantity) ==
    CASE action = "add" -> stock + quantity
      [] action = "subtract" -> Max(0, stock - quantity)
      [] action = "set" -> stock + quantity

\* StockChange with the change of `subtract` not clamped to the stock.
StockChange_unclamped(action, stock, quantity) ==
    CASE action = "add" -> quantity
      [] action = "subtract" -> 0 - quantity
      [] action = "set" -> quantity - stock

\* stock/route.ts:64-79  switch (action)
NewStock(action, stock, quantity) ==
    CASE action = "add" -> stock + quantity
      [] action = "subtract" -> Max(0, stock - quantity)
      [] action = "set" -> quantity

StockChange(action, stock, quantity) ==
    CASE action = "add" -> quantity
      [] action = "subtract" -> 0 - Min(quantity, stock)
      [] action = "set" -> quantity - stock

\* stock/route.ts:82-108  the statements of the stock transaction, in order:
\* menu.update with the absolute new stock, then the stock_updated log
StockTxLen == 2

StockTx(q, r, k) ==
    [orders |-> {},
     writes |-> IF k >= 1 THEN <<SetStock(q.id, q.newStock)>> ELSE <<>>,
     logs |-> IF k >= 2
              THEN {LogRow(r, 0, "stock_updated", q.id, q.stockChange,
                           q.menuItem.stock, q.newStock)}
              ELSE {}]

\* --------------------------------------------------- stock update: handler
\* StockCatch without the inner try: a failed log write escapes the handler
\* and the framework answers in its place.
StockCatch_unguarded(r, q, kept, logged) ==
    /\ logs' = IF logged /\ q.session
               THEN kept \cup {LogRow(r, -1, "stock_error", q.id, 0, 0, 0)}
               ELSE kept
    /\ Set(r, [q EXCEPT !.pc = "done",
               !.response = IF ~logged
                            THEN Response(500, "Internal Server Error", <<>>)
                            ELSE IF q.err = "zod"
                            THEN Response(400, "Validation failed", <<>>)
                            ELSE Response(500, "Failed to update stock", <<>>)])

\* stock/route.ts:143-176  catch: the stock_error log is tried (`logged`
\* tells whether that write succeeds), then 400 for a ZodError, else 500
StockCatch(r, q, kept, logged) ==
    /\ logs' = IF logged /\ q.session
               THEN kept \cup {LogRow(r, -1, "stock_error", q.id, 0, 0, 0)}
               ELSE kept
    /\ Set(r, [q EXCEPT !.pc = "done",
               !.response = IF q.err = "zod"
                            THEN Response(400, "Validation failed", <<>>)
                            ELSE Response(500, "Failed to update stock", <<>>)])

\* StockUnauthorized leaving through the catch block, whose log write is
\* then made without a session.
StockUnauthorized_thrown(r) ==
    /\ logs' = logs \cup {LogRow(r, -1, "stock_error", "", 0, 0, 0)}
    /\ Set(r, [req[r] EXCEPT !.kind = "stock", !.pc = "done",
               !.response = Response(401, "Authentication required", <<>>)])

\* stock/route.ts:28-34  no session: 401, returned from the try block.  None
\* of the request is read yet.
StockUnauthorized(r) ==
    /\ Set(r, [req[r] EXCEPT !.kind = "stock", !.pc = "done",
               !.response = Response(401, "Authentication required", <<>>)])
    /\ UNCHANGED logs

\* StockNotFound leaving through the catch block, as a throw would.
StockNotFound_thrown(r, q) ==
    /\ logs' = logs \cup {LogRow(r, -1, "stock_error", q.id, 0, 0, 0)}
    /\ Set(r, [q EXCEPT !.pc = "done",
               !.response = Response(404, "Menu item not found", <<>>)])

\* stock/route.ts:48-58  findUnique found no row: 404, returned from the try
\* block
StockNotFound(r, q) ==
    /\ Set(r, [q EXCEPT !.pc = "done",
               !.response = Response(404, "Menu item not found", <<>>)])
    /\ UNCHANGED logs

\* StockUpdate looking the menu item up before it parses the body.
StockUpdate_lookupFirst(r, session, id, action, raw, logged) ==
    /\ CanStart(r)
    /\ LET p == [req[r] EXCEPT !.kind = "stock", !.session = session,
                               !.id = id, !.before = Answered]
           q == [p EXCEPT !.action = action]
       IN  IF ~session
           THEN StockUnauthorized(r)
           ELSE IF id \notin MenuIds
           THEN StockNotFound(r, [q EXCEPT !.quantity = Coerce(raw)])
           ELSE IF ~SchemaAccepts(action, raw)
           THEN StockCatch(r, [p EXCEPT !.err = "zod"], logs, logged)
           ELSE LET stock == menu[id].stock
                    quantity == Coerce(raw)
                IN  /\ Set(r, [q EXCEPT !.pc = "tx", !.quantity = quantity,
                             !.menuItem = [found |-> TRUE, price |-> menu[id].price,
                                           stock |-> stock],
                             !.newStock = NewStock(action, stock, quantity),
                             !.stockChange = StockChange(action, stock, quantity)])
                    /\ UNCHANGED logs
    /\ UNCHANGED <<menu, tables, orders>>

\* stock/route.ts:28-79  auth(), request.json(), stockUpdateSchema.parse,
\* menu.findUnique, 404, new stock and change.  `action` and `quantity` are
\* locals only once the body has parsed.
StockUpdate(r, session, id, action, raw, logged) ==
    /\ CanStart(r)
    /\ LET p == [req[r] EXCEPT !.kind = "stock", !.session = session,
                               !.id = id, !.before = Answered]
           q == [p EXCEPT !.action = action]
       IN  IF ~session
           THEN StockUnauthorized(r)
           ELSE IF ~SchemaAccepts(action, raw)
           THEN StockCatch(r, [p EXCEPT !.err = "zod"], logs, logged)
           ELSE IF id \notin MenuIds
           THEN StockNotFound(r, [q EXCEPT !.quantity = Coerce(raw)])
           ELSE LET stock == menu[id].stock
                    quantity == Coerce(raw)
                IN  /\ Set(r, [q EXCEPT !.pc = "tx", !.quantity = quantity,
                             !.menuItem = [found |-> TRUE, price |-> menu[id].price,
                                           stock |-> stock],
                             !.newStock = NewStock(action, stock, quantity),
                             !.stockChange = StockChange(action, stock, quantity)])
                    /\ UNCHANGED logs
    /\ UNCHANGED <<menu, tables, orders>>

\* stock/route.ts:82-142  the transaction commits: 200 with stock_change
StockCommit(r) ==
    /\ req[r].kind = "stock" /\ req[r].pc = "tx"
    /\ Commit(StockTx(req[r], r, StockTxLen))
    /\ Respond(r, [Response(200, "", <<>>) EXCEPT !.stock_change =
            [previous_stock |-> req[r].menuItem.stock,
             new_stock |-> req[r].newStock,
             change |-> req[r].stockChange,
             action |-> req[r].action]])

\* stock/route.ts:82-108, 143-176  statement number `failAt` of the
\* transaction (or, past the last one, its COMMIT) throws: the transaction
\* is rolled back and the catch block runs
StockTxFail(r, failAt, logged) ==
    /\ req[r].kind = "stock" /\ req[r].pc = "tx"
    /\ failAt \in 1..(StockTxLen + 1)
    /\ LET tx == AbortedTx(StockTx(req[r], r, failAt - 1)) IN
       /\ orders' = orders \cup tx.orders
       /\ menu' = ApplyWrites(menu, tx.writes)
       /\ StockCatch(r, [req[r] EXCEPT !.err = "tx"], logs \cup tx.logs, logged)
       /\ UNCHANGED tables

\* ------------------------------------------------------------ menu editing
\* The admin menu form saves a new price for a menu item
\* (part_001 onSubmit: PUT /api/menu/[id], price a positive integer).
EditedMenuIds == {"m1"}

MenuEditPrice(m, price) ==
    /\ menu[m].price # price
    /\ menu' = [menu EXCEPT ![m].price = price]
    /\ UNCHANGED <<tables, orders, logs, req, panel>>

\* part_001:409-424  toggleAvailability: the admin page switches a menu item
\* on or off.
MenuSetAvailable(m, b) ==
    /\ menu[m].is_available # b
    /\ menu' = [menu EXCEPT ![m].is_available = b]
    /\ UNCHANGED <<tables, orders, logs, req, panel>>

\* ------------------------------------------------------------------ tables
\* A delete that leaves order rows pointing at the table.
RestrictsDelete_none(t) == FALSE

\* schema.prisma:100  Order.table is a required relation without onDelete:
\* the foreign key orders.table_id is ON DELETE RESTRICT.
RestrictsDelete(t) == \E o \in orders : o.table_id = t

\* part_000:82-114  DELETE /api/tables/[id]: 404 without the row, 500 when the
\* delete throws on the foreign key, else the row is removed.
TableDelete(t) ==
    /\ TableExists(t)
    /\ ~RestrictsDelete(t)
    /\ tables' = [x \in DOMAIN tables \ {t} |-> tables[x]]
    /\ UNCHANGED <<menu, orders, logs, req, panel>>

\* ------------------------------------------------------------ table names
\* part_000:47  route.ts:38  name.length > 255
NameLimit == 255

NameString(s) == [t |-> "string", s |-> s]
NameNumber == [t |-> "number", s |-> Str(0, 0)]
NullBody == [t |-> "null body", s |-> Str(0, 0)]

\* "", " ", "a", " a", and the strings around the limit
RawNames ==
    {NoName, NameNumber, NullBody}
    \cup {NameString(Str(pad, body)) : pad \in 0..1, body \in 0..1}
    \cup {NameString(Str(0, NameLimit)), NameString(Str(0, NameLimit + 1)),
          NameString(Str(1, NameLimit))}

\* The ids prisma gives to created tables; no checkout names them.
NewTableIds == {"t2"}

\* part_000:40-52  route.ts:30-42  the validation of both routes:
\* !name is true of undefined, null, 0 and "", of no other string.
NameError(raw) ==
    IF raw.t # "string" \/ Length(raw.s) = 0
    THEN "Name is required and must be a string"
    ELSE IF Length(raw.s) > NameLimit
    THEN "Name must be 255 characters or less"
    ELSE ""

\* route.ts:24-59  POST /api/admin/tables: `const { name, desc } = body`
\* throws on a null body (500); 400 on a name that fails the validation;
\* else table.create stores name.trim() (201), or throws (500).
TableCreate(r, raw, id, stored) ==
    /\ CanStart(r)
    /\ id \notin DOMAIN tables
    /\ LET q == [Idle EXCEPT !.kind = "tableCreate", !.name = raw,
                             !.before = Answered]
       IN  IF raw = NullBody
           THEN /\ Set(r, [q EXCEPT !.pc = "done", !.response =
                                 Response(500, "Failed to create table", <<>>)])
                /\ UNCHANGED tables
           ELSE IF NameError(raw) # ""
           THEN /\ Set(r, [q EXCEPT !.pc = "done", !.response =
                                 Response(400, NameError(raw), <<>>)])
                /\ UNCHANGED tables
           ELSE IF stored
           THEN /\ tables' = [x \in DOMAIN tables \cup {id} |->
                                 IF x = id THEN Trim(raw.s) ELSE tables[x]]
                /\ Set(r, [q EXCEPT !.pc = "done", !.id = id,
                                    !.response = Response(201, "", <<>>)])
           ELSE /\ Set(r, [q EXCEPT !.pc = "done", !.response =
                                 Response(500, "Failed to create table", <<>>)])
                /\ UNCHANGED tables
    /\ UNCHANGED <<menu, orders, logs>>

\* part_000:31-61  PUT /api/tables/[id] up to its lookup: 500 on a null
\* body, 400 on a name that fails the validation, 404 without the row.
TableUpdate(r, raw, id) ==
    /\ CanStart(r)
    /\ LET q == [Idle EXCEPT !.kind = "tableUpdate", !.name = raw, !.id = id,
                             !.before = Answered]
       IN  IF raw = NullBody
           THEN Set(r, [q EXCEPT !.pc = "done", !.response =
                            Response(500, "Failed to update table", <<>>)])
           ELSE IF NameError(raw) # ""
           THEN Set(r, [q EXCEPT !.pc = "done", !.response =
                            Response(400, NameError(raw), <<>>)])
           ELSE IF ~TableExists(id)
           THEN Set(r, [q EXCEPT !.pc = "done", !.response =
                            Response(404, "Table not found", <<>>)])
           ELSE Set(r, [q EXCEPT !.pc = "update"])
    /\ UNCHANGED <<menu, tables, orders, logs>>

\* part_000:63-79  table.update stores name.trim() (200); it throws when the
\* row has been deleted since the lookup, or for the store's reasons (500).
TableUpdateWrite(r, stored) ==
    /\ req[r].kind = "tableUpdate" /\ req[r].pc = "update"
    /\ IF stored /\ TableExists(req[r].id)
       THEN /\ tables' = [tables EXCEPT ![req[r].id] = Trim(req[r].name.s)]
            /\ Respond(r, Response(200, "", <<>>))
       ELSE /\ Respond(r, Response(500, "Failed to update table", <<>>))
            /\ UNCHANGED tables
    /\ UNCHANGED <<menu, orders, logs>>

\* -------------------------------------------------------------------- spec
Next ==
    \/ \E r \in Reqs, session \in BOOLEAN, t \in RequestTableIds, c \in Carts :
          Checkout(r, session, t, c)
    \/ \E r \in Reqs : CheckoutFindMenu(r)
    \/ \E r \in Reqs : CheckoutCommit(r)
    \/ \E r \in Reqs, failAt \in 1..MaxTxLen, logged \in BOOLEAN :
          CheckoutTxFail(r, failAt, logged)
    \/ \E r \in Reqs, session \in BOOLEAN, id \in AdjustedMenuIds,
          a \in RawActions, raw \in RawQuantities, logged \in BOOLEAN :
          StockUpdate(r, session, id, a, raw, logged)
    \/ \E r \in Reqs : StockCommit(r)
    \/ \E r \in Reqs, failAt \in 1..MaxTxLen, logged \in BOOLEAN :
          StockTxFail(r, failAt, logged)
    \/ \E m \in EditedMenuIds, p \in Prices : MenuEditPrice(m, p)

Spec == Init /\ [][Next]_vars

\* ------------------------------------------------------------- fairness
\* Two requests in flight, each of its awaits answered: the store answers
\* every query (a transaction commits or throws) and the event loop resumes
\* every handler whose await has settled.
LiveCarts == {<<Line("m1", 1)>>, <<Line("m1", 1), Line("m2", 1)>>}
LiveQuantities == {RawInt(1), RawMissing}

NextLive ==
    \/ \E r \in Reqs, session \in BOOLEAN, t \in TableIds, c \in LiveCarts :
          Checkout(r, session, t, c)
    \/ \E r \in Reqs : CheckoutFindMenu(r)
    \/ \E r \in Reqs : CheckoutCommit(r)
    \/ \E r \in Reqs, failAt \in 1..MaxTxLen, logged \in BOOLEAN :
          CheckoutTxFail(r, failAt, logged)
    \/ \E r \in Reqs, session \in BOOLEAN, id \in AdjustedMenuIds,
          a \in Actions, raw \in LiveQuantities, logged \in BOOLEAN :
          StockUpdate(r, session, id, a, raw, logged)
    \/ \E r \in Reqs : StockCommit(r)
    \/ \E r \in Reqs, failAt \in 1..MaxTxLen, logged \in BOOLEAN :
          StockTxFail(r, failAt, logged)

CheckoutTxEnds(r) ==
    \/ CheckoutCommit(r)
    \/ \E failAt \in 1..MaxTxLen, logged \in BOOLEAN :
          CheckoutTxFail(r, failAt, logged)

StockTxEnds(r) ==
    \/ StockCommit(r)
    \/ \E failAt \in 1..MaxTxLen, logged \in BOOLEAN :
          StockTxFail(r, failAt, logged)

Fairness ==
    \A r \in Reqs :
        /\ WF_vars(CheckoutFindMenu(r))
        /\ WF_vars(CheckoutTxEnds(r))
        /\ WF_vars(StockTxEnds(r))

SpecLive == Init /\ [][NextLive]_vars /\ Fairness

\* -------------------------------------------------------- adjustments only
\* Stock adjustments in any interleaving, and no checkout.
NextAdjust ==
    \/ \E r \in Reqs, session \in BOOLEAN, id \in AdjustedMenuIds,
          a \in RawActions, raw \in RawQuantities, logged \in BOOLEAN :
          StockUpdate(r, session, id, a, raw, logged)
    \/ \E r \in Reqs : StockCommit(r)
    \/ \E r \in Reqs, failAt \in 1..MaxTxLen, logged \in BOOLEAN :
          StockTxFail(r, failAt, logged)

SpecAdjust == Init /\ [][NextAdjust]_vars

\* -------------------------------------------------- checkouts and tables
\* Checkouts in any interleaving with the table routes.
NextTables ==
    \/ \E r \in Reqs, session \in BOOLEAN, t \in RequestTableIds,
          c \in LiveCarts :
          Checkout(r, session, t, c)
    \/ \E r \in Reqs : CheckoutFindMenu(r)
    \/ \E r \in Reqs : CheckoutCommit(r)
    \/ \E r \in Reqs, failAt \in 1..MaxTxLen, logged \in BOOLEAN :
          CheckoutTxFail(r, failAt, logged)
    \/ \E t \in RequestTableIds : TableDelete(t)

SpecTables == Init /\ [][NextTables]_vars

\* ---------------------------------------------------------- table routes
\* The table routes in any interleaving, and no checkout.  A created table
\* keeps its id: prisma never gives it to another row.
NextNames ==
    \/ \E r \in Reqs, raw \in RawNames, id \in NewTableIds, stored \in BOOLEAN :
          TableCreate(r, raw, id, stored)
    \/ \E r \in Reqs, raw \in RawNames, id \in RequestTableIds \cup NewTableIds :
          TableUpdate(r, raw, id)
    \/ \E r \in Reqs, stored \in BOOLEAN : TableUpdateWrite(r, stored)
    \/ \E t \in RequestTableIds : TableDelete(t)

InitNames ==
    /\ menu \in [MenuIds -> [price : {2}, stock : {MaxStock},
                              is_available : {TRUE}]]
    /\ tables = [t \in TableIds |-> SeededName]
    /\ orders = {}
    /\ logs = {}
    /\ req = [r \in Reqs |-> Idle]
    /\ panel = ClosedPanel

SpecNames == InitNames /\ [][NextNames]_vars

\* -------------------------------------------------------------- cart panel
\* part_002:413-660  the cart panel.  The cart is filled on the menu page;
\* the panel starts with the sheet open on a cart.
PanelCarts == {<<Line("m1", 1)>>, <<Line("m1", 1), Line("m2", MaxQty)>>}
FetchResults == {"ok", "error", "threw"}

InitPanel ==
    /\ menu \in [MenuIds -> [price : {2}, stock : {MaxStock},
                              is_available : {TRUE}]]
    /\ tables = [t \in TableIds |-> SeededName]
    /\ orders = {}
    /\ logs = {}
    /\ req = [r \in Reqs |-> Idle]
    /\ panel \in {[ClosedPanel EXCEPT !.items = c, !.isCartOpen = TRUE] :
                     c \in PanelCarts}

PanelSet(p) == panel' = p /\ UNCHANGED <<menu, tables, orders, logs, req>>

\* part_002:542-543  "Checkout" button, disabled={isLoading}
OpenCheckoutDialog ==
    /\ panel.isCartOpen /\ ~panel.isCheckoutDialogOpen /\ ~panel.isLoading
    /\ PanelSet([panel EXCEPT !.isCheckoutDialogOpen = TRUE])

\* part_002:557-558  "Clear" button, disabled={isLoading}
ClearCart ==
    /\ panel.isCartOpen /\ ~panel.isCheckoutDialogOpen /\ ~panel.isLoading
    /\ panel.items # <<>>
    /\ PanelSet([panel EXCEPT !.items = <<>>])

\* part_002:396  the sheet's onOpenChange={setIsCartOpen}: the cart button
\* opens the sheet, Escape or a click outside closes it; the checkout dialog,
\* when open, lies over the sheet and takes these events.
SetIsCartOpen(b) ==
    /\ ~panel.isCheckoutDialogOpen
    /\ panel.isCartOpen # b
    /\ PanelSet([panel EXCEPT !.isCartOpen = b])

\* part_002:683  removeItem(item.id) on the i-th cart line; the button is not
\* disabled while a checkout is loading.
RemoveItem(i) ==
    /\ panel.isCartOpen /\ ~panel.isCheckoutDialogOpen
    /\ i \in 1..Len(panel.items)
    /\ PanelSet([panel EXCEPT !.items =
                    SubSeq(@, 1, i - 1) \o SubSeq(@, i + 1, Len(@))])

\* part_002:703-710  updateQuantity(item.id, item.quantity - 1 / + 1) on the
\* i-th cart line, between 1 and MaxQty; not disabled while loading either.
UpdateQuantity(i, d) ==
    /\ panel.isCartOpen /\ ~panel.isCheckoutDialogOpen
    /\ i \in 1..Len(panel.items)
    /\ panel.items[i].quantity + d \in 1..MaxQty
    /\ PanelSet([panel EXCEPT !.items[i].quantity = @ + d])

\* part_002:584-587  the table select, disabled={isLoading || loadingTables}
SelectTable(t) ==
    /\ panel.isCheckoutDialogOpen /\ ~panel.isLoading
    /\ panel.tableId # t
    /\ PanelSet([panel EXCEPT !.tableId = t])

\* part_002:567  onOpenChange={setIsCheckoutDialogOpen}: Escape or a click
\* outside closes the dialog, also while a checkout is loading;
\* part_002:636-637  "Cancel", disabled={isLoading}
CloseCheckoutDialog ==
    /\ panel.isCheckoutDialogOpen
    /\ PanelSet([panel EXCEPT !.isCheckoutDialogOpen = FALSE])

\* part_002:448-472  handleCheckout up to its fetch: without a table a toast
\* and nothing else, else isLoading and the request.  (The button is
\* disabled={isLoading || !checkoutInfo.tableId || loadingTables}.)
HandleCheckout ==
    /\ panel.isCheckoutDialogOpen /\ ~panel.isLoading /\ panel.pc = "idle"
    /\ IF panel.tableId = ""
       THEN PanelSet([panel EXCEPT !.toast = "Please select a table"])
       ELSE PanelSet([panel EXCEPT !.isLoading = TRUE, !.pc = "fetch",
                                   !.toast = "", !.response = "none"])

\* Settled clearing the cart in the finally block.
Settled_clearsInFinally(p, result) ==
    IF result = "ok"
    THEN [p EXCEPT !.items = <<>>, !.isCheckoutDialogOpen = FALSE,
                   !.isCartOpen = FALSE, !.tableId = "",
                   !.toast = "Order placed successfully! Check your order.",
                   !.isLoading = FALSE, !.pc = "idle", !.response = result]
    ELSE [p EXCEPT !.items = <<>>, !.toast = "Failed to place order",
                   !.isLoading = FALSE, !.pc = "idle", !.response = result]

\* part_002:474-497  after the fetch: response.ok clears the cart, closes the
\* dialog and the sheet and resets the table; !response.ok and a throw of
\* fetch or response.json() only toast; finally isLoading is false.
Settled(p, result) ==
    IF result = "ok"
    THEN [p EXCEPT !.items = <<>>, !.isCheckoutDialogOpen = FALSE,
                   !.isCartOpen = FALSE, !.tableId = "",
                   !.toast = "Order placed successfully! Check your order.",
                   !.isLoading = FALSE, !.pc = "idle", !.response = result]
    ELSE [p EXCEPT !.toast = "Failed to place order",
                   !.isLoading = FALSE, !.pc = "idle", !.response = result]

FetchSettles(result) ==
    /\ panel.pc = "fetch"
    /\ PanelSet(Settled(panel, result))

NextPanel ==
    \/ OpenCheckoutDialog
    \/ ClearCart
    \/ \E b \in BOOLEAN : SetIsCartOpen(b)
    \/ \E i \in 1..2 : RemoveItem(i)
    \/ \E i \in 1..2, d \in {-1, 1} : UpdateQuantity(i, d)
    \/ \E t \in TableIds : SelectTable(t)
    \/ CloseCheckoutDialog
    \/ HandleCheckout
    \/ \E result \in FetchResults : FetchSettles(result)

SpecPanel == InitPanel /\ [][NextPanel]_vars

\* ------------------------------------------------------- one request alone
\* One request at a time, with every shape of body: lines with an empty id,
\* an unknown id, a quantity of 0 or of one half, and menu items that
\* are switched off.
SoloReqs == {1}
SoloMenuIds == MenuIds \cup {MissingMenuId}
SoloLines ==
    {Line(id, q) : id \in SoloMenuIds \cup {""}, q \in 0..MaxQty}
    \cup {HalfLine(id, 0) : id \in {"m1", MissingMenuId}}
SoloCarts ==
    {<<l>> : l \in SoloLines} \cup {<<l, k>> : l \in SoloLines, k \in SoloLines}

InitSolo ==
    /\ menu \in [MenuIds -> [price : {2}, stock : 0..MaxStock,
                              is_available : BOOLEAN]]
    /\ tables = [t \in TableIds |-> SeededName]
    /\ orders = {}
    /\ logs = {}
    /\ req = [r \in Reqs |-> Idle]
    /\ panel = ClosedPanel

NextSolo ==
    \/ \E r \in SoloReqs, session \in BOOLEAN, t \in RequestTableIds,
          c \in SoloCarts :
          Checkout(r, session, t, c)
    \/ \E r \in SoloReqs : CheckoutFindMenu(r)
    \/ \E r \in SoloReqs : CheckoutCommit(r)
    \/ \E r \in SoloReqs, failAt \in 1..MaxTxLen, logged \in BOOLEAN :
          CheckoutTxFail(r, failAt, logged)
    \/ \E r \in SoloReqs, session \in BOOLEAN, id \in SoloMenuIds,
          a \in RawActions, raw \in RawQuantities, logged \in BOOLEAN :
          StockUpdate(r, session, id, a, raw, logged)
    \/ \E r \in SoloReqs : StockCommit(r)
    \/ \E r \in SoloReqs, failAt \in 1..MaxTxLen, logged \in BOOLEAN :
          StockTxFail(r, failAt, logged)
    \/ \E m \in MenuIds, p \in Prices : MenuEditPrice(m, p)
    \/ \E m \in MenuIds, b \in BOOLEAN : MenuSetAvailable(m, b)

SpecSolo == InitSolo /\ [][NextSolo]_vars

\* ================================================================= claims
IsCheckout(r) == req[r].kind = "checkout"
IsStock(r) == req[r].kind = "stock"
Status(r) == req[r].response.status
Succeeded(r) == req[r].pc = "done" /\ Status(r) \in {200, 201}

\* The quantity a cart asks of menu item x, over all its lines.
RECURSIVE Asked(_, _)
Asked(items, x) ==
    IF items = <<>> THEN 0
    ELSE (IF Head(items).id = x THEN Head(items).quantity ELSE 0)
         + Asked(Tail(items), x)

\* C1: in every committed state, whatever the interleaving of checkouts and
\* stock adjustments, the stock of every menu item is at least 0.
C1_StockNeverNegative == \A x \in MenuIds : menu[x].stock >= 0

\* C2: when two checkouts that overlap in time ask, of one menu item,
\* quantities that together exceed its stock, at most one of them succeeds.
\* (With both answered 201 and no other request begun, the stock the two
\* competed for is the committed stock plus what the two were given.)
C2_LastUnitSoldOnce ==
    \A a \in Reqs, b \in Reqs, x \in MenuIds :
        /\ a # b /\ IsCheckout(a) /\ IsCheckout(b)
        /\ a \notin req[b].before /\ b \notin req[a].before
        /\ \A c \in Reqs \ {a, b} : req[c].pc = "idle"
        /\ Asked(req[a].items, x) > 0 /\ Asked(req[b].items, x) > 0
        /\ LET stock == menu[x].stock + (IF Succeeded(a) THEN Asked(req[a].items, x) ELSE 0)
                                      + (IF Succeeded(b) THEN Asked(req[b].items, x) ELSE 0)
           IN  Asked(req[a].items, x) + Asked(req[b].items, x) > stock
        => ~(Succeeded(a) /\ Succeeded(b))

\* C3: the total_amount of every committed order is the sum of the subtotals
\* of its order items, and every subtotal is price times quantity.
C3_TotalIsSumOfSubtotals ==
    \A o \in orders :
        /\ o.total_amount = SumSeq([j \in 1..Len(o.order_items) |-> o.order_items[j].subtotal])
        /\ \A j \in 1..Len(o.order_items) :
              o.order_items[j].subtotal = o.order_items[j].price * o.order_items[j].quantity

C3_Witness ==
    \E o \in orders :
        /\ Len(o.order_items) = 2
        /\ o.total_amount = o.order_items[1].subtotal + o.order_items[2].subtotal
        /\ o.order_items[2].subtotal > 0

\* C4: the price of every order item of a successful checkout is the price
\* the checkout read at validation, also when the catalog price was edited
\* between that read and the commit, and no step changes a committed order.
C4_PriceIsValidationSnapshot ==
    /\ [](\A r \in Reqs : IsCheckout(r) /\ Succeeded(r) =>
            \E o \in orders :
                /\ o.id = req[r].response.order
                /\ Len(o.order_items) = Len(req[r].items)
                /\ \A j \in 1..Len(o.order_items) :
                      /\ o.order_items[j].menu_id = req[r].items[j].id
                      /\ o.order_items[j].price = req[r].menuItems[req[r].items[j].id].price)
    /\ [][orders \subseteq orders']_vars

C4_Witness ==
    \E r \in Reqs : IsCheckout(r) /\ Succeeded(r) /\ req[r].repriced

\* The lines of a cart that ask for more than the stock of their menu item,
\* as the validation read of catalog m finds it.
ShortLines(m, items) ==
    LET Short(item) == /\ item.id \in MenuIds
                       /\ m[item.id].is_available
                       /\ \/ m[item.id].stock < item.quantity
                          \/ item.frac /\ m[item.id].stock = item.quantity
    IN  SelectSeq(items, Short)

SuccessLogs(l) == {e \in l : e.action \in {"order_created", "stock_updated"}}
LogsOf(r) == {e \in logs : e.id[1] = r}
ErrorLogged(r) == \E e \in LogsOf(r) : e.action \in {"order_error", "stock_error"}

\* C5: a checkout whose validation read finds a line asking for more than
\* the stock commits no order, no order item, no stock change and no
\* order_created or stock_updated log, and its error lists every such line
\* with the requested quantity and the available stock.
C5_InsufficientStockRejectsAll ==
    [][\A r \in Reqs :
        /\ IsCheckout(r) /\ req[r].pc = "menu" /\ req'[r].pc # "menu"
        /\ Len(ShortLines(menu, req[r].items)) > 0
        => /\ orders' = orders /\ menu' = menu
           /\ SuccessLogs(logs') = SuccessLogs(logs)
           /\ req'[r].pc = "done" /\ req'[r].response.status = 400
           /\ req'[r].response.detail =
                 [j \in 1..Len(ShortLines(menu, req[r].items)) |->
                    [menu_id |-> ShortLines(menu, req[r].items)[j].id,
                     requested |-> ShortLines(menu, req[r].items)[j].quantity,
                     half |-> ShortLines(menu, req[r].items)[j].frac,
                     available |-> menu[ShortLines(menu, req[r].items)[j].id].stock]]
      ]_vars

\* C6: when a statement of the checkout transaction (or its commit) fails,
\* the orders, the order items, the stocks and the order_created and
\* stock_updated logs are those from before: the request has written none.
C6_FailedCheckoutWritesNothing ==
    /\ [][\A r \in Reqs :
            IsCheckout(r) /\ req[r].pc = "tx" /\ req'[r].err = "tx"
            => /\ orders' = orders /\ menu' = menu
               /\ SuccessLogs(logs') = SuccessLogs(logs)]_vars
    /\ [](\A r \in Reqs : IsCheckout(r) /\ req[r].err = "tx" =>
            /\ ~\E o \in orders : o.id = r
            /\ SuccessLogs(LogsOf(r)) = {})

C6_Witness ==
    \E r \in Reqs : /\ IsCheckout(r) /\ req[r].err = "tx" /\ req[r].pc = "done"
                    /\ Len(req[r].items) = 2

\* C7: when the checkout transaction fails the caller gets the generic 500,
\* and the request commits either nothing or, when the order_error log
\* write succeeds, that one log entry and nothing else.
C7_FailedCheckoutLogsOnlyError ==
    [][\A r \in Reqs :
        IsCheckout(r) /\ req[r].pc = "tx" /\ req'[r].err = "tx"
        => /\ req'[r].pc = "done"
           /\ req'[r].response.status = 500
           /\ req'[r].response.error = "Failed to process checkout"
           /\ UNCHANGED <<orders, menu, tables>>
           /\ \/ logs' = logs
              \/ \E e \in logs' : /\ e \notin logs
                                  /\ e.action = "order_error"
                                  /\ logs' = logs \cup {e}
      ]_vars

C7_Witness ==
    \E r \in Reqs : /\ IsCheckout(r) /\ req[r].err = "tx" /\ Status(r) = 500
                    /\ ErrorLogged(r)

\* C8: in both handlers the answer to a failed request is the same whether
\* the fallback error log was written or its write failed: 500 for a failed
\* transaction, 400 for a stock update that fails validation.
C8_LogFailureDoesNotMaskError ==
    \A r \in Reqs : req[r].pc = "done" /\ req[r].err # "" =>
        /\ IsCheckout(r) =>
              /\ Status(r) = 500
              /\ req[r].response.error = "Failed to process checkout"
        /\ IsStock(r) /\ req[r].err = "tx" =>
              /\ Status(r) = 500
              /\ req[r].response.error = "Failed to update stock"
        /\ IsStock(r) /\ req[r].err = "zod" =>
              /\ Status(r) = 400
              /\ req[r].response.error = "Validation failed"

C8_Witness ==
    \E a \in Reqs, b \in Reqs :
        /\ IsCheckout(a) /\ req[a].pc = "done" /\ req[a].err = "tx" /\ ~ErrorLogged(a)
        /\ IsStock(b) /\ req[b].pc = "done" /\ req[b].err = "zod" /\ ~ErrorLogged(b)

\* C9: from a stock s >= 0 and a quantity q >= 0 the adjuster computes
\* add -> (s + q, +q), subtract -> (max(0, s - q), -min(q, s)),
\* set -> (q, q - s); subtracting more than there is gives (0, -s); always
\* the new stock is s plus the change, and is at least 0.
C9_AdjusterArithmetic ==
    \A r \in Reqs :
        IsStock(r) /\ req[r].menuItem.found /\ req[r].menuItem.stock >= 0 =>
        LET s == req[r].menuItem.stock
            q == req[r].quantity
            n == req[r].newStock
            d == req[r].stockChange
        IN  /\ q >= 0
            /\ req[r].action = "add" => n = s + q /\ d = q
            /\ req[r].action = "subtract" /\ q > s => n = 0 /\ d = 0 - s
            /\ req[r].action = "subtract" /\ q <= s => n = s - q /\ d = 0 - q
            /\ req[r].action = "set" => n = q /\ d = q - s
            /\ n = s + d
            /\ n >= 0

C9_Witness ==
    \E r \in Reqs : /\ IsStock(r) /\ req[r].menuItem.found
                    /\ req[r].action = "subtract"
                    /\ req[r].menuItem.stock > 0
                    /\ req[r].quantity > req[r].menuItem.stock

\* C10: the same `set` request with quantity q issued twice in a row on one
\* menu item, nothing else touching the item in between, leaves the stock at
\* q after each call, and the second call reports a change of 0.
SameSet(a, b) ==
    /\ IsStock(a) /\ IsStock(b)
    /\ req[a].action = "set" /\ req[b].action = "set"
    /\ req[a].id = req[b].id /\ req[a].quantity = req[b].quantity

C10_SetTwiceIsIdempotent ==
    \A a \in Reqs :
        /\ IsStock(a) /\ req[a].action = "set" /\ Succeeded(a)
        /\ \A c \in Reqs \ {a} :
              \/ c \in req[a].before
              \/ req[c].pc = "idle"
              \/ a \in req[c].before /\ SameSet(a, c)
        => /\ menu[req[a].id].stock = req[a].quantity
           /\ \A b \in Reqs \ {a} :
                 a \in req[b].before /\ SameSet(a, b) /\ Succeeded(b)
                 => req[b].response.stock_change.change = 0

C10_Witness ==
    \E a \in Reqs, b \in Reqs :
        /\ a # b /\ SameSet(a, b) /\ Succeeded(a) /\ Succeeded(b)
        /\ a \in req[b].before
        /\ req[a].quantity > 0
        /\ req[a].response.stock_change.change # 0

\* C11: for every successful stock adjustment, the previous value, the new
\* value and the signed delta recorded in its LogEntry and returned in
\* stock_change are the item's committed stock immediately before its write,
\* immediately after its write, and their difference -- also when a checkout
\* or another adjustment of the same item commits between the adjuster's read
\* and its write.
StockCommits(r) ==
    /\ IsStock(r) /\ req[r].pc = "tx"
    /\ req'[r].pc = "done" /\ req'[r].response.status = 200

C11_AdjustmentRecordsCommittedStock ==
    [][\A r \in Reqs :
          StockCommits(r) =>
            LET id == req[r].id
                change == req'[r].response.stock_change
            IN  /\ change.previous_stock = menu[id].stock
                /\ change.new_stock = menu'[id].stock
                /\ change.change = menu'[id].stock - menu[id].stock
                /\ \A l \in logs' \ logs :
                      /\ l.prev = menu[id].stock
                      /\ l.new = menu'[id].stock
                      /\ l.qty = menu'[id].stock - menu[id].stock]_vars

\* C12: an authenticated stock-update request with a valid body for a menu
\* item id that does not exist is answered 404 and commits nothing: no stock
\* changes and no LogEntry is appended.
StockArrives(r) == req[r].pc = "idle" /\ req'[r].kind = "stock"
ValidBody(q) == q.session /\ q.err # "zod"

C12_MissingItemIs404 ==
    [][\A r \in Reqs :
          /\ StockArrives(r) /\ ValidBody(req'[r])
          /\ req'[r].id \notin MenuIds
          => /\ req'[r].pc = "done"
             /\ req'[r].response.status = 404
             /\ menu' = menu /\ logs' = logs /\ orders' = orders]_vars

C12_Witness ==
    \E r \in Reqs :
        /\ IsStock(r) /\ ValidBody(req[r]) /\ req[r].id = MissingMenuId
        /\ req[r].pc = "done" /\ Status(r) = 404
        /\ LogsOf(r) = {}

\* C13 as stated: a stock-update request that fails validation (quantity
\* missing, non-integer or negative, or action not one of add, subtract, set)
\* is answered 400 and after it every menu item's stock and the set of
\* committed LogEntries are the same as before it.
FailsValidation(action, raw) ==
    \/ raw = RawMissing
    \/ raw.t = "half"
    \/ raw.t = "int" /\ raw.v < 0
    \/ action \notin {"add", "subtract", "set"}

ValidationRejects ==
    \A action \in RawActions, raw \in RawQuantities :
        FailsValidation(action, raw) => ~SchemaAccepts(action, raw)

Rejected(r) == StockArrives(r) /\ req'[r].session /\ req'[r].err = "zod"

C13_RejectionLeavesStockAndLogs ==
    [][/\ ValidationRejects
       /\ \A r \in Reqs :
             Rejected(r) =>
               /\ req'[r].pc = "done" /\ req'[r].response.status = 400
               /\ menu' = menu
               /\ logs' = logs]_vars

\* C13, amended: such a request is answered 400 and changes no menu item and
\* no order; the committed LogEntries are kept, and the only entry it may
\* append is one stock_error entry of its own, written by the catch block.
C13_RejectionLeavesStock ==
    [][/\ ValidationRejects
       /\ \A r \in Reqs :
             Rejected(r) =>
               /\ req'[r].pc = "done" /\ req'[r].response.status = 400
               /\ menu' = menu /\ orders' = orders
               /\ logs \subseteq logs'
               /\ Cardinality(logs' \ logs) <= 1
               /\ \A l \in logs' \ logs :
                     l.id[1] = r /\ l.action = "stock_error"]_vars

C13_Witness ==
    \E r \in Reqs :
        /\ IsStock(r) /\ req[r].err = "zod" /\ req[r].pc = "done"
        /\ Status(r) = 400
        /\ ErrorLogged(r)

\* C14: a checkout request on an existing table with at least one line whose
\* id is empty or whose quantity is not an integer greater than 0 is rejected
\* with the malformed-line error, the error lists every offending line and
\* no other, and nothing is committed.
CheckoutArrives(r) ==
    /\ req[r].pc = "idle" /\ req'[r].kind = "checkout"
    /\ req'[r].session /\ TableExists(req'[r].tableId)

Malformed(item) ==
    item.id = "" \/ item.frac \/ item.quantity <= 0

C14_MalformedLinesRejected ==
    [][\A r \in Reqs :
          /\ CheckoutArrives(r)
          /\ \E j \in 1..Len(req'[r].items) : Malformed(req'[r].items[j])
          => /\ req'[r].pc = "done"
             /\ req'[r].response.status = 400
             /\ req'[r].response.error = "All items must have valid ID and quantity"
             /\ req'[r].response.detail = SelectSeq(req'[r].items, Malformed)
             /\ menu' = menu /\ orders' = orders /\ logs' = logs]_vars

\* C15: a well-formed checkout request (existing table, every line with an id
\* and an integer quantity > 0) that references at least one menu item id
\* that does not exist or whose is_available is false is rejected with the
\* unavailable-items error, the reported ids are exactly the referenced ids
\* that are missing or unavailable, and nothing is committed.
LooksUpMenu(r) ==
    IsCheckout(r) /\ req[r].pc = "menu" /\ req'[r].pc # "menu"

WellFormed(items) == \A j \in 1..Len(items) : ~Malformed(items[j])
Referenced(items) == {items[j].id : j \in 1..Len(items)}
Unavailable(m, id) == id \notin MenuIds \/ ~m[id].is_available
Reported(detail) == {detail[j] : j \in 1..Len(detail)}

C15_UnavailableItemsRejected ==
    [][\A r \in Reqs :
          /\ LooksUpMenu(r) /\ WellFormed(req[r].items)
          /\ \E id \in Referenced(req[r].items) : Unavailable(menu, id)
          => /\ req'[r].pc = "done"
             /\ req'[r].response.status = 400
             /\ req'[r].response.error
                   = "Some menu items are not available or do not exist"
             /\ Reported(req'[r].response.detail)
                   = {id \in Referenced(req[r].items) : Unavailable(menu, id)}
             /\ menu' = menu /\ orders' = orders /\ logs' = logs]_vars

C15_Witness ==
    \E r \in Reqs :
        /\ IsCheckout(r) /\ req[r].pc = "done" /\ Status(r) = 400
        /\ req[r].response.error
              = "Some menu items are not available or do not exist"
        /\ Len(req[r].items) = 2
        /\ req[r].response.detail = <<"m1">>
        /\ ~menu["m1"].is_available /\ menu["m2"].is_available
        /\ orders = {} /\ logs = {}

\* C16: checkout validation is fail-fast in the order table existence, line
\* shape, item existence/availability, stock sufficiency: a request that
\* violates several rules is answered with the error of the first violated
\* rule in that order, and every validation rejection happens before any
\* order, stock or log write.
Rule1(tableId) == ~TableExists(tableId)
Rule2(items) == ~WellFormed(items)
Rule3(m, items) == \E id \in Referenced(items) : Unavailable(m, id)
Rule4(m, items) ==
    \E j \in 1..Len(items) :
        /\ items[j].id \in MenuIds
        /\ \/ m[items[j].id].stock < items[j].quantity
           \/ items[j].frac /\ m[items[j].id].stock = items[j].quantity

ViolatedRules(m, tableId, items) ==
    {k \in 1..4 : \/ k = 1 /\ Rule1(tableId)
                  \/ k = 2 /\ Rule2(items)
                  \/ k = 3 /\ Rule3(m, items)
                  \/ k = 4 /\ Rule4(m, items)}

FirstViolated(rules) == CHOOSE k \in rules : \A o \in rules : k <= o

RuleError(k) ==
    CASE k = 1 -> "Invalid table selected"
      [] k = 2 -> "All items must have valid ID and quantity"
      [] k = 3 -> "Some menu items are not available or do not exist"
      [] k = 4 -> "Insufficient stock for some items"

ValidationErrors == {RuleError(k) : k \in 1..4}

\* The step of request r at which rule k is decided: rules 1 and 2 when the
\* request arrives, rules 3 and 4 at the menu lookup.
Decides(r, k) ==
    \/ /\ k \in {1, 2}
       /\ req[r].pc = "idle" /\ req'[r].kind = "checkout" /\ req'[r].session
    \/ /\ k \in {3, 4} /\ LooksUpMenu(r)

C16_FirstViolatedRuleAnswers ==
    [][\A r \in Reqs :
          LET rules == ViolatedRules(menu, req'[r].tableId, req'[r].items) IN
          /\ Cardinality(rules) >= 2 /\ Decides(r, FirstViolated(rules))
             => /\ req'[r].pc = "done"
                /\ req'[r].response.status = 400
                /\ req'[r].response.error = RuleError(FirstViolated(rules))
          /\ /\ IsCheckout(r) /\ req[r].pc # "done" /\ req'[r].pc = "done"
             /\ req'[r].response.error \in ValidationErrors
             => /\ menu' = menu /\ orders' = orders /\ logs' = logs
                /\ LogsOf(r) = {} /\ \A o \in orders : o.id # r]_vars

\* C17: after a successful checkout that runs with no other request
\* interleaved, the stock of each menu item named by a cart line equals that
\* item's stock before the request minus that line's quantity.  (Under
\* SpecSolo no other request runs, and the stock the commit finds is the
\* stock before the request.)
CheckoutCommits(r) ==
    /\ IsCheckout(r) /\ req[r].pc = "tx"
    /\ req'[r].pc = "done" /\ req'[r].response.status = 201

C17_StockDecrementedByQuantity ==
    [][\A r \in Reqs :
          CheckoutCommits(r) =>
            /\ \A j \in 1..Len(req[r].items) :
                  menu'[req[r].items[j].id].stock
                    = menu[req[r].items[j].id].stock - req[r].items[j].quantity
            /\ \A x \in MenuIds \ Referenced(req[r].items) :
                  menu'[x].stock = menu[x].stock]_vars

C17_Witness ==
    \E r \in Reqs :
        /\ IsCheckout(r) /\ Succeeded(r)
        /\ Len(req[r].items) = 2
        /\ \A j \in 1..2 : req[r].items[j].quantity = 1
        /\ \A x \in MenuIds : menu[x].stock = 0

\* C18: a successful checkout with n cart lines appends exactly n + 1
\* LogEntries, one order_created and n stock_updated, and these entries are
\* committed if and only if the order is committed.
OrdersOf(r) == {o \in orders : o.id = r}
Tagged(l, action) == {e \in l : e.action = action}

C18_SuccessLogsWithOrder ==
    \A r \in Reqs :
        IsCheckout(r) =>
          LET n == Len(req[r].items) IN
          /\ SuccessLogs(LogsOf(r)) # {} <=> OrdersOf(r) # {}
          /\ Succeeded(r) \/ OrdersOf(r) # {}
             => /\ Cardinality(LogsOf(r)) = n + 1
                /\ Cardinality(Tagged(LogsOf(r), "order_created")) = 1
                /\ Cardinality(Tagged(LogsOf(r), "stock_updated")) = n
                /\ {e.ref : e \in Tagged(LogsOf(r), "stock_updated")}
                      = Referenced(req[r].items)

C18_Witness ==
    \E r \in Reqs :
        /\ IsCheckout(r) /\ Succeeded(r)
        /\ Len(req[r].items) = 2
        /\ Cardinality(LogsOf(r)) = 3
        /\ OrdersOf(r) # {}

\* C19: every checkout request that returns success committed exactly one
\* new Order, with order_status and payment_status pending and exactly one
\* OrderItem per cart line; every checkout request answered with an error
\* committed no Order and no OrderItem; a step commits order items only as
\* part of the one order it commits.
ItemOf(row) == [id |-> row.menu_id, quantity |-> row.quantity, frac |-> FALSE]

C19_Orders ==
    \A r \in Reqs :
        IsCheckout(r) /\ req[r].pc = "done" =>
          IF Succeeded(r)
          THEN /\ Cardinality(OrdersOf(r)) = 1
               /\ \A o \in OrdersOf(r) :
                     /\ o.order_status = "pending"
                     /\ o.payment_status = "pending"
                     /\ MapSeq(o.order_items, ItemOf) = req[r].items
          ELSE OrdersOf(r) = {}

C19_OneOrderPerSuccess ==
    /\ []C19_Orders
    /\ [][/\ \A r \in Reqs :
               CheckoutCommits(r) => Cardinality(orders' \ orders) = 1
          /\ orders' # orders => \E r \in Reqs : CheckoutCommits(r)]_vars

C19_Witness ==
    \E r \in Reqs, e \in Reqs :
        /\ IsCheckout(r) /\ Succeeded(r) /\ Len(req[r].items) = 2
        /\ IsCheckout(e) /\ req[e].pc = "done" /\ Status(e) = 500
        /\ Cardinality(orders) = 1

\* C20: the set of LogEntries only grows: no checkout or stock-adjustment
\* step changes or removes a committed LogEntry.
C20_LogsOnlyGrow ==
    [][logs \subseteq logs']_vars

C20_Witness ==
    \E a \in Reqs, b \in Reqs :
        /\ IsCheckout(a) /\ Succeeded(a)
        /\ IsStock(b) /\ req[b].pc = "done" /\ a \in req[b].before
        /\ LogsOf(a) # {} /\ LogsOf(b) # {}

\* C21: a checkout or stock-update request whose caller has no authenticated
\* identity is answered 401 and commits nothing: no order, no stock change
\* and no LogEntry, not even an error LogEntry.
Arrives(r) == req[r].pc = "idle" /\ req'[r].pc # "idle"

C21_UnauthenticatedIs401 ==
    [][\A r \in Reqs :
          Arrives(r) /\ ~req'[r].session
          => /\ req'[r].pc = "done"
             /\ req'[r].response.status = 401
             /\ menu' = menu /\ orders' = orders /\ logs' = logs
             /\ LogsOf(r)' = {}]_vars

C21_Witness ==
    \E r \in Reqs :
        /\ IsStock(r) /\ req[r].pc = "done" /\ ~req[r].session
        /\ Status(r) = 401
        /\ logs = {} /\ orders = {}

\* C22: a checkout changes the stock of no menu item other than those named
\* by its cart lines and never changes any menu item's price or
\* is_available; a stock adjustment changes the stock of only its target menu
\* item and changes no price, no is_available, no Order and no OrderItem.
Steps(r) == req'[r] # req[r]

C22_Frame ==
    [][\A r \in Reqs :
          Steps(r) =>
            /\ \A x \in MenuIds :
                  /\ menu'[x].price = menu[x].price
                  /\ menu'[x].is_available = menu[x].is_available
            /\ req'[r].kind = "checkout"
               => \A x \in MenuIds \ Referenced(req'[r].items) :
                     menu'[x].stock = menu[x].stock
            /\ req'[r].kind = "stock"
               => /\ \A x \in MenuIds \ {req'[r].id} :
                        menu'[x].stock = menu[x].stock
                  /\ orders' = orders]_vars

C22_Witness ==
    \E r \in Reqs :
        /\ IsCheckout(r) /\ Succeeded(r)
        /\ req[r].items = <<Line("m1", 1)>>
        /\ menu["m1"].stock = 0 /\ menu["m2"].stock = 1
        /\ menu["m1"].is_available

\* C23: every checkout request and every stock-update request eventually
\* ends with exactly one response (success or error), under fairness of the
\* store and of the handler steps; no request stays pending forever and the
\* transaction of each request is eventually committed or aborted.
Pending(r) == req[r].pc \in {"menu", "tx"}
Ended(r) == req[r].pc = "done" /\ Status(r) # 0

C23_EveryRequestEnds ==
    /\ \A r \in Reqs : Pending(r) ~> Ended(r)
    /\ [][\A r \in Reqs :
             /\ Arrives(r) => Pending(r)' \/ Ended(r)'
             /\ Ended(r) => req'[r] = req[r]]_vars

C23_Witness ==
    \E a \in Reqs, b \in Reqs :
        /\ IsCheckout(a) /\ Ended(a) /\ Status(a) = 201
        /\ IsStock(b) /\ Ended(b) /\ Status(b) = 500
        /\ b \notin req[a].before /\ a \notin req[b].before

\* C24: a checkout request on an existing table whose lines are all
\* well-formed and all reference existing, available menu items with stock at
\* least the line's quantity is accepted, also when two of its lines
\* reference the same menu item id.
Orderable(m, items) ==
    /\ WellFormed(items)
    /\ \A j \in 1..Len(items) :
          /\ ~Unavailable(m, items[j].id)
          /\ m[items[j].id].stock >= items[j].quantity

C24_RepeatedIdAccepted ==
    [][\A r \in Reqs :
          LooksUpMenu(r) /\ Orderable(menu, req[r].items)
          => req'[r].pc = "tx"]_vars

\* C25: when two stock adjustments with action add and quantities q1 and q2
\* run concurrently on the same menu item and both return success, the
\* committed stock afterwards equals the initial stock plus q1 plus q2:
\* neither addition is lost.  (Request 1 is the first to read, so the stock
\* it read is the initial stock.)
BothAdd(a, b) ==
    /\ IsStock(a) /\ IsStock(b)
    /\ req[a].action = "add" /\ req[b].action = "add"
    /\ req[a].id = req[b].id
    /\ Succeeded(a) /\ Succeeded(b)

C25_NoAdditionLost ==
    BothAdd(1, 2)
    => menu[req[1].id].stock
         = req[1].menuItem.stock + req[1].quantity + req[2].quantity

\* C26: under any interleaving of stock adjustments only (no checkout
\* running), every menu item's committed stock stays greater than or equal
\* to 0.
C26_AdjustmentsKeepStockNonNegative ==
    \A x \in MenuIds : menu[x].stock >= 0

C26_Witness ==
    \E a \in Reqs, b \in Reqs :
        /\ a # b /\ IsStock(a) /\ IsStock(b)
        /\ req[a].action = "subtract" /\ req[b].action = "subtract"
        /\ req[a].id = req[b].id
        /\ Succeeded(a) /\ Succeeded(b)
        /\ a \notin req[b].before /\ b \notin req[a].before
        /\ req[a].menuItem.stock = 1 /\ req[b].menuItem.stock = 1
        /\ req[a].quantity = 1 /\ req[b].quantity = 1
        /\ menu[req[a].id].stock = 0

\* C27: the stock-update handler checks in the order authentication,
\* request-body validation, menu item existence: a request with an invalid
\* body for a menu item id that does not exist is answered 400, not 404, and
\* a valid body for a missing id is answered 404.  (A 404 answer carries the
\* parsed action and quantity, so it is given only to a body that parsed.)
C27_StockCheckOrder ==
    [][\A r \in Reqs :
          StockArrives(r) =>
            LET q == req'[r] IN
            /\ ~q.session => q.response.status = 401
            /\ q.session /\ q.err = "zod" => q.response.status = 400
            /\ q.response.status = 404
               => /\ q.session /\ q.id \notin MenuIds
                  /\ q.action \in Actions /\ q.quantity >= 0
            /\ ValidBody(q) /\ q.id \notin MenuIds
               => q.response.status = 404]_vars

C27_Witness ==
    \E r \in Reqs :
        /\ IsStock(r) /\ req[r].session /\ req[r].id = MissingMenuId
        /\ req[r].err = "zod" /\ req[r].pc = "done"
        /\ Status(r) = 400

\* C28: under any interleaving of checkouts with table deletions, every
\* committed Order references a Table that exists in the committed state: a
\* table deleted between the checkout's table lookup and its order insert
\* makes the checkout fail without an order, and a table referenced by a
\* committed order is not removed.
C28_OrdersHaveTheirTable ==
    /\ \A o \in orders : TableExists(o.table_id)
    /\ \A r \in Reqs :
          IsCheckout(r) /\ req[r].pc = "done" /\ req[r].session
          /\ ~TableExists(req[r].tableId)
          => ~Succeeded(r) /\ OrdersOf(r) = {}

C28_TableOfOrderStays ==
    /\ []C28_OrdersHaveTheirTable
    /\ [][\A t \in DOMAIN tables :
             RestrictsDelete(t) => t \in DOMAIN tables']_vars

C28_Witness ==
    \E a \in Reqs, b \in Reqs :
        /\ IsCheckout(a) /\ req[a].pc = "done" /\ req[a].err = "tx"
        /\ req[a].tableId \in TableIds /\ ~TableExists(req[a].tableId)
        /\ IsCheckout(b) /\ req[b].pc = "done" /\ Status(b) = 400
        /\ req[b].tableId = req[a].tableId /\ a \in req[b].before
        /\ orders = {}

\* C29: in the cart panel, handleCheckout clears the cart and closes the
\* checkout dialog only after the checkout request returned success; after a
\* failed checkout the cart lines and the selected table are unchanged, and
\* in both cases the loading flag is false again once the request has ended.
HandlerSteps == panel'.pc # panel.pc \/ panel'.toast # panel.toast
Returns == panel.pc = "fetch" /\ panel'.pc = "idle"

C29_CartClearedOnlyOnSuccess ==
    [][/\ (/\ HandlerSteps
           /\ \/ panel'.items # panel.items
              \/ panel.isCheckoutDialogOpen /\ ~panel'.isCheckoutDialogOpen)
          => (Returns /\ panel'.response = "ok")
       /\ Returns
          => /\ ~panel'.isLoading
             /\ (panel'.response = "ok")
                => (panel'.items = <<>> /\ ~panel'.isCheckoutDialogOpen)
             /\ (panel'.response # "ok")
                => /\ panel'.items = panel.items
                   /\ panel'.tableId = panel.tableId
                   /\ panel'.isCheckoutDialogOpen
                        = panel.isCheckoutDialogOpen]_vars

C29_Witness ==
    /\ panel.response = "error" /\ panel.pc = "idle"
    /\ ~panel.isLoading
    /\ Len(panel.items) = 2 /\ panel.tableId = "t1"
    /\ panel.isCheckoutDialogOpen

\* C30: after any sequence of table create and table update requests, every
\* stored table has a name that is non-empty and at most 255 characters long;
\* a request whose name is missing, not a string or longer than 255
\* characters is answered 400 and stores nothing.
IsTableRequest(r) == req[r].kind \in {"tableCreate", "tableUpdate"}
TableArrives(r) == req[r].pc = "idle" /\ IsTableRequest(r)'
NameRejected(raw) ==
    \/ raw.t \in {"missing", "number"}
    \/ raw.t = "string" /\ Length(raw.s) > NameLimit

StoredNamesValid ==
    \A t \in DOMAIN tables :
        Length(tables[t]) > 0 /\ Length(tables[t]) <= NameLimit

BadNameIs400 ==
    [][\A r \in Reqs :
          TableArrives(r) /\ NameRejected(req'[r].name)
          => /\ req'[r].pc = "done" /\ req'[r].response.status = 400
             /\ tables' = tables]_vars

C30_StoredNamesValid == []StoredNamesValid /\ BadNameIs400

\* What does hold of the stored names: none is longer than the limit.
C30_StoredNamesShort ==
    \A t \in DOMAIN tables : Length(tables[t]) <= NameLimit

====
